---- MODULE Spec2Model ----
(***************************************************************************)
(* Model of galpy/util/bovy_symplecticode.c: the symplectic integrators    *)
(* leapfrog, symplec4 and symplec6, their step-size searches and the       *)
(* process-wide SIGINT flag `interrupted`.                                 *)
(*                                                                         *)
(* Numbers.  A time is an integer number of ticks, CoefDen ticks to one    *)
(* unit of time; a composition coefficient is an integer number of         *)
(* 1/CoefDen, the double literal of the source rounded to four decimals in *)
(* such a way that the identities the literals satisfy (sum of the drift   *)
(* coefficients = sum of the kick coefficients = 1, palindromic order)     *)
(* hold exactly.  All arithmetic of the model is exact.                    *)
(*                                                                         *)
(* Phase-space values.  drift, kick and the acceleration func are supplied *)
(* by the caller, so a phase-space value is modelled by the history of the *)
(* calls that produced it from the initial condition: a sequence of        *)
(* [op, dt, t] records.  Two values are equal iff the same calls with the  *)
(* same arguments produced them.                                           *)
(***************************************************************************)
EXTENDS Integers, Sequences, FiniteSets, TLC

VARIABLES
  interrupted,  \* volatile sig_atomic_t interrupted (process-wide)
  sigHandler,   \* disposition of SIGINT: "SIG_DFL" or "handle_sigint"
  call,         \* per thread: arguments and locals of the running integrator
  est,          \* per thread: locals of the running *_estimate_step
  out,          \* per thread: the caller's result buffer and *err
  hist,         \* per thread: history of the call (what was polled, written)
  evalr,        \* the caller's evaluator: what metric / the difference of the
                \* two probes gave for each candidate step tried so far
  prev,         \* what the previous call returned to its caller
  heap          \* the scratch buffers that are allocated and not freed

vars == <<interrupted, sigHandler, call, est, out, hist, evalr, prev, heap>>

----------------------------------------------------------------------------
(* Bounds of the model *)

MaxNt == 3
MaxNdt == 2
\* dim: with construct_Lz the code reads and writes yo[2], so dim >= 3
Dim == 3

Threads == {"T1", "T2"}
Main == "T1"

----------------------------------------------------------------------------
(* Program constants *)

CoefDen == 10000

\* #define _MAX_DT_REDUCE 10000.
MAX_DT_REDUCE == 10000

\* the sentinel dt == -9999.99, in ticks
DT_SENTINEL == -99999900

\* *err= -10
ERR_INTERRUPTED == -10

\* leapfrog: dt/2. and dt
LF_half == 5000
LF_one == 10000

\* symplec4 coefficients (c4 = c1, c3 = c2, d3 = d1, c41 = c4 + c1)
S4_c1 == 6756
S4_c2 == -1756
S4_d1 == 13512
S4_d2 == -17024
S4_c4 == S4_c1
S4_c3 == S4_c2
S4_d3 == S4_d1
S4_c41 == S4_c4 + S4_c1

\* symplec6 coefficients (c8 = c1, c7 = c2, c6 = c3, c5 = c4, d7 = d1, ...)
S6_c1 == 3923
S6_c2 == 5100
S6_c3 == -4711
S6_c4 == 688
S6_d1 == 7845
S6_d2 == 2356
S6_d3 == -11777
S6_d4 == 13152
S6_c8 == S6_c1
S6_c7 == S6_c2
S6_c6 == S6_c3
S6_c5 == S6_c4
S6_d7 == S6_d1
S6_d6 == S6_d2
S6_d5 == S6_d3

\* A double of the error norm is an integer number of 1/FP.
FP == 100

\* exp(x) for x in -4..4, in 1/FP
ExpTab == << 2, 5, 14, 37, 100, 272, 739, 2009, 5460 >>
Exp(x) == ExpTab[x + 5]

RECURSIVE SqrtBetween(_, _, _)
SqrtBetween(n, lo, hi) ==
  IF lo >= hi THEN lo
  ELSE LET mid == (lo + hi + 1) \div 2
       IN IF mid * mid <= n THEN SqrtBetween(n, mid, hi)
          ELSE SqrtBetween(n, lo, mid - 1)

\* sqrt(x) for x an integer number of 1/FP, rounded down to 1/FP
Sqrt(x) == SqrtBetween(x * FP, 0, 46340)

Schemes == {"leapfrog", "symplec4", "symplec6"}

\* c * x for a coefficient c and a duration x (x a multiple of CoefDen ticks)
Mul(c, x) == c * (x \div CoefDen)

----------------------------------------------------------------------------
(* Phase-space values *)

NoTerm == [kind |-> "none", h |-> <<>>, t |-> 0]
Junk == [kind |-> "junk", h |-> <<>>, t |-> 0]
Val(k, hh) == [kind |-> k, h |-> hh, t |-> 0]
Op(o, d, tt) == [op |-> o, dt |-> d, t |-> tt]

IsPrefix(s, t) == Len(s) <= Len(t) /\ SubSeq(t, 1, Len(s)) = s
OnlyOps(hh, from, o) == \A i \in (from + 1)..Len(hh) : hh[i].op = o

JunkH == << Op("junk", 0, 0) >>

\* The history of the state whose position has history qh and whose momentum
\* has history ph; JunkH when they are not of one state.
Joined(qh, ph) ==
  IF IsPrefix(ph, qh) /\ OnlyOps(qh, Len(ph), "drift") THEN qh
  ELSE IF IsPrefix(qh, ph) /\ OnlyOps(ph, Len(qh), "kick") THEN ph
  ELSE JunkH

\* drift(dt, y) and kick(dt, t, y, nargs, potentialArgs): the caller's, in place
drift(d, y) ==
  IF y.kind = "y" THEN Val("y", Append(y.h, Op("drift", d, 0))) ELSE Junk
kick(d, tt, y) ==
  IF y.kind = "y" THEN Val("y", Append(y.h, Op("kick", d, tt))) ELSE Junk

\* qn = q + dt * p
leapfrog_leapq(q, p, d) ==
  IF q.kind = "q" /\ p.kind = "p" /\ Joined(q.h, p.h) # JunkH
  THEN Val("q", Append(Joined(q.h, p.h), Op("drift", d, 0)))
  ELSE Junk

\* func(t, q, a, nargs, potentialArgs): the caller's acceleration at q, time t
func(tt, q) ==
  IF q.kind = "q" THEN [kind |-> "a", h |-> q.h, t |-> tt] ELSE Junk

\* pn = p + dt * a
leapfrog_leapp(p, d, a) ==
  IF p.kind = "p" /\ a.kind = "a" /\ Joined(a.h, p.h) # JunkH
  THEN Val("p", Append(Joined(a.h, p.h), Op("kick", d, a.t)))
  ELSE Junk

\* One block of the result buffer.  save_result copies yo and, with
\* construct_Lz, divides the third component of the copy by the first;
\* save_qp copies qo and then po.
Unwritten == [y |-> NoTerm, p |-> NoTerm, Lz |-> FALSE]
save_result(yo, construct_Lz) == [y |-> yo, p |-> NoTerm, Lz |-> construct_Lz]
save_qp(qo, po) == [y |-> qo, p |-> po, Lz |-> FALSE]

\* *(yo+2) *= *yo
MulLz(yo) == Val("y", Append(yo.h, Op("mulLz", 0, 0)))

----------------------------------------------------------------------------
(* The stages of one macro interval *)

Ins(o, cc, ad, of, qq, pp, dd) ==
  [op |-> o, c |-> cc, adv |-> ad, off |-> of, q |-> qq, p |-> pp, dst |-> dd]
D(cc, ad) == Ins("drift", cc, ad, 0, "yo", "yo", "yo")
K(cc, of) == Ins("kick", cc, 0, of, "yo", "yo", "yo")
LQ(qq, pp, cc, dd) == Ins("leapq", cc, cc, 0, qq, pp, dd)
LP(qq, pp, cc, dd) == Ins("leapp", cc, 0, 0, qq, pp, dd)
RESET == Ins("reset", 0, 0, 0, "qo", "p12", "q12")
P8 == Ins("p8", 0, 0, 0, "qo", "p12", "po")

\* the statements before the inner loop
HeadStages(s) ==
  CASE s = "leapfrog" -> << D(LF_half, 0) >>
    [] s = "symplec4" -> << D(S4_c1, S4_c1) >>
    [] s = "symplec6" -> << LQ("qo", "po", S6_c1, "q12") >>

S6_common ==
  << LP("q12", "po", S6_d1, "p12"), LQ("q12", "p12", S6_c2, "qo"),
     LP("qo", "p12", S6_d2, "po"),  LQ("qo", "po", S6_c3, "q12"),
     LP("q12", "po", S6_d3, "p12"), LQ("q12", "p12", S6_c4, "qo"),
     LP("qo", "p12", S6_d4, "po"),  LQ("qo", "po", S6_c5, "q12"),
     LP("q12", "po", S6_d5, "p12"), LQ("q12", "p12", S6_c6, "qo"),
     LP("qo", "p12", S6_d6, "po"),  LQ("qo", "po", S6_c7, "q12"),
     LP("q12", "po", S6_d7, "p12") >>

\* InnerStages with the last drift of symplec4 and symplec6 not fused with
\* the first drift of the next step: c4 and c8 in place of c4+c1 and c8+c1
InnerStages_NotFused(s) ==
  CASE s = "leapfrog" -> << K(LF_one, LF_half), D(LF_one, LF_one) >>
    [] s = "symplec4" ->
         << K(S4_d1, 0), D(S4_c2, S4_c2), K(S4_d2, 0), D(S4_c3, S4_c3),
            K(S4_d3, 0), D(S4_c4, S4_c4) >>
    [] s = "symplec6" ->
         S6_common \o << LQ("q12", "p12", S6_c8, "qo"), RESET >>

\* the body of the inner loop, run ndt-1 times
InnerStages(s) ==
  CASE s = "leapfrog" -> << K(LF_one, LF_half), D(LF_one, LF_one) >>
    [] s = "symplec4" ->
         << K(S4_d1, 0), D(S4_c2, S4_c2), K(S4_d2, 0), D(S4_c3, S4_c3),
            K(S4_d3, 0), D(S4_c41, S4_c41) >>
    [] s = "symplec6" ->
         S6_common \o << LQ("q12", "p12", S6_c8 + S6_c1, "qo"), RESET >>

\* TailStages with the last kick of leapfrog at to instead of to+dt/2
TailStages_KickAtTo(s) ==
  CASE s = "leapfrog" -> << K(LF_one, 0), D(LF_half, LF_one) >>
    [] s = "symplec4" ->
         << K(S4_d1, 0), D(S4_c2, S4_c2), K(S4_d2, 0), D(S4_c3, S4_c3),
            K(S4_d3, 0), D(S4_c4, S4_c4) >>
    [] s = "symplec6" ->
         S6_common \o << LQ("q12", "p12", S6_c8, "qo"), P8 >>

\* the statements after the inner loop, up to the save
TailStages(s) ==
  CASE s = "leapfrog" -> << K(LF_one, LF_half), D(LF_half, LF_one) >>
    [] s = "symplec4" ->
         << K(S4_d1, 0), D(S4_c2, S4_c2), K(S4_d2, 0), D(S4_c3, S4_c3),
            K(S4_d3, 0), D(S4_c4, S4_c4) >>
    [] s = "symplec6" ->
         S6_common \o << LQ("q12", "p12", S6_c8, "qo"), P8 >>

\* One statement group on the buffers b at internal time tt with step d.
Exec(ins, b, tt, d) ==
  CASE ins.op = "drift" ->
         [buf |-> [b EXCEPT ![ins.dst] = drift(Mul(ins.c, d), b[ins.dst])],
          to |-> tt + Mul(ins.adv, d)]
    [] ins.op = "kick" ->
         [buf |-> [b EXCEPT ![ins.dst] =
                     kick(Mul(ins.c, d), tt + Mul(ins.off, d), b[ins.dst])],
          to |-> tt]
    [] ins.op = "leapq" ->
         [buf |-> [b EXCEPT ![ins.dst] =
                     leapfrog_leapq(b[ins.q], b[ins.p], Mul(ins.c, d))],
          to |-> tt + Mul(ins.adv, d)]
    [] ins.op = "leapp" ->
         LET acc == func(tt, b[ins.q])
         IN [buf |-> [b EXCEPT !.a = acc,
                        ![ins.dst] = leapfrog_leapp(b[ins.p], Mul(ins.c, d), acc)],
             to |-> tt]
    [] ins.op = "reset" ->
         [buf |-> [b EXCEPT !.q12 = b.qo, !.po = b.p12], to |-> tt]
    [] ins.op = "p8" ->
         [buf |-> [b EXCEPT !.po = b.p12], to |-> tt]
    [] ins.op = "copy" ->
         [buf |-> [b EXCEPT ![ins.dst] = b[ins.p]], to |-> tt]
    [] ins.op = "rewind" ->
         [buf |-> b, to |-> tt - d]

\* the statement groups list[i], list[i+1], ... one after the other
RECURSIVE RunStages(_, _, _, _)
RunStages(list, i, m, d) ==
  IF i > Len(list) THEN m
  ELSE RunStages(list, i + 1, Exec(list[i], m.buf, m.to, d), d)

NoBufs ==
  [yo |-> NoTerm, qo |-> NoTerm, po |-> NoTerm, q12 |-> NoTerm,
   p12 |-> NoTerm, a |-> NoTerm]

----------------------------------------------------------------------------
(* The two probes of one candidate step of a step-size search *)

\* drift and kick on y11 or y12
DY(y, cc, ad) == Ins("drift", cc, ad, 0, y, y, y)
KY(y, cc, of) == Ins("kick", cc, 0, of, y, y, y)
\* to-= dt
REWIND == Ins("rewind", 0, 0, 0, "qo", "po", "qo")
\* p12 = ptmp
COPY_P12 == Ins("copy", 0, 0, 0, "qtmp", "ptmp", "p12")

\* one step with step dt, to y11 (symplec6: to q11, p11), run with d = dt
ProbeOne(s) ==
  CASE s = "leapfrog" ->
         << DY("y11", 5000, 0), KY("y11", 10000, 5000), DY("y11", 5000, 0) >>
    [] s = "symplec4" ->
         << DY("y11", S4_c1, S4_c1), KY("y11", S4_d1, 0),
            DY("y11", S4_c2, S4_c2), KY("y11", S4_d2, 0),
            DY("y11", S4_c3, S4_c3), KY("y11", S4_d3, 0),
            DY("y11", S4_c4, 0) >>
    [] s = "symplec6" ->
         << LQ("qo", "po", S6_c1, "q12"),     LP("q12", "po", S6_d1, "p12"),
            LQ("q12", "p12", S6_c2, "qtmp"),  LP("qtmp", "p12", S6_d2, "ptmp"),
            LQ("qtmp", "ptmp", S6_c3, "q12"), LP("q12", "ptmp", S6_d3, "p12"),
            LQ("q12", "p12", S6_c4, "qtmp"),  LP("qtmp", "p12", S6_d4, "ptmp"),
            LQ("qtmp", "ptmp", S6_c5, "q12"), LP("q12", "ptmp", S6_d5, "p12"),
            LQ("q12", "p12", S6_c6, "qtmp"),  LP("qtmp", "p12", S6_d6, "ptmp"),
            LQ("qtmp", "ptmp", S6_c7, "q12"), LP("q12", "ptmp", S6_d7, "p11"),
            LQ("q12", "p11", S6_c8, "q11") >>

\* the reset of the clock between the probes, run with d = dt
BetweenProbes(s) == IF s = "leapfrog" THEN <<>> ELSE << REWIND >>

\* two steps with step dt/2, to y12 (symplec6: to q12, p12); leapfrog is run
\* with d = dt, symplec4 and symplec6 with d = dt/2
ProbeTwo(s) ==
  CASE s = "leapfrog" ->
         << DY("y12", 2500, 0), KY("y12", 5000, 2500), DY("y12", 5000, 0),
            KY("y12", 5000, 7500), DY("y12", 2500, 0) >>
    [] s = "symplec4" ->
         << DY("y12", S4_c1, S4_c1),   KY("y12", S4_d1, 0),
            DY("y12", S4_c2, S4_c2),   KY("y12", S4_d2, 0),
            DY("y12", S4_c3, S4_c3),   KY("y12", S4_d3, 0),
            DY("y12", S4_c41, S4_c41), KY("y12", S4_d1, 0),
            DY("y12", S4_c2, S4_c2),   KY("y12", S4_d2, 0),
            DY("y12", S4_c3, S4_c3),   KY("y12", S4_d3, 0),
            DY("y12", S4_c4, 0) >>
    [] s = "symplec6" ->
         << LQ("qo", "po", S6_c1, "q12"),     LP("q12", "po", S6_d1, "p12"),
            LQ("q12", "p12", S6_c2, "qtmp"),  LP("qtmp", "p12", S6_d2, "ptmp"),
            LQ("qtmp", "ptmp", S6_c3, "q12"), LP("q12", "ptmp", S6_d3, "p12"),
            LQ("q12", "p12", S6_c4, "qtmp"),  LP("qtmp", "p12", S6_d4, "ptmp"),
            LQ("qtmp", "ptmp", S6_c5, "q12"), LP("q12", "ptmp", S6_d5, "p12"),
            LQ("q12", "p12", S6_c6, "qtmp"),  LP("qtmp", "p12", S6_d6, "ptmp"),
            LQ("qtmp", "ptmp", S6_c7, "q12"), LP("q12", "ptmp", S6_d7, "p12"),
            LQ("q12", "p12", S6_c1 + S6_c8, "qtmp"),
                                              LP("qtmp", "p12", S6_d1, "ptmp"),
            LQ("qtmp", "ptmp", S6_c2, "q12"), LP("q12", "ptmp", S6_d2, "p12"),
            LQ("q12", "p12", S6_c3, "qtmp"),  LP("qtmp", "p12", S6_d3, "ptmp"),
            LQ("qtmp", "ptmp", S6_c4, "q12"), LP("q12", "ptmp", S6_d4, "p12"),
            LQ("q12", "p12", S6_c5, "qtmp"),  LP("qtmp", "p12", S6_d5, "ptmp"),
            LQ("qtmp", "ptmp", S6_c6, "q12"), LP("q12", "ptmp", S6_d6, "p12"),
            LQ("q12", "p12", S6_c7, "qtmp"),  LP("qtmp", "p12", S6_d7, "ptmp"),
            LQ("qtmp", "ptmp", S6_c8, "q12"), COPY_P12 >>

\* the reset of the clock after the norm, run with d = dt
AfterProbes(s) == IF s = "symplec6" THEN << REWIND >> ELSE <<>>

\* the buffers of a search on the state base: y11 and y12 are reset to yo for
\* every candidate, the buffers of symplec6_estimate_step hold what malloc
\* left in them
ProbeBufs(base) ==
  [y11 |-> base.yo, y12 |-> base.yo, qo |-> base.qo, po |-> base.po,
   q11 |-> Junk, q12 |-> Junk, p11 |-> Junk, p12 |-> Junk,
   qtmp |-> Junk, ptmp |-> Junk, a |-> Junk]

\* the state a probe ended in: y11 / y12, or q11, p11 / q12, p12
ProbeResult(s, b, y, q, p) ==
  IF s = "symplec6" THEN Joined(b[q].h, b[p].h) ELSE b[y].h

\* One candidate dt of a search, from the buffers and the clock m0 it starts
\* with: m1 after the one-step probe, m2 after the reset between the probes,
\* m3 after the two-half-step probe.  The histories h1, h2 of the two probes,
\* the clock s1, s2 at the start of each, the clock to after the candidate.
ProbesDone(s, m0, m1, m2, m3, d) ==
  [h1 |-> ProbeResult(s, m1.buf, "y11", "q11", "p11"),
   h2 |-> ProbeResult(s, m3.buf, "y12", "q12", "p12"),
   s1 |-> m0.to, s2 |-> m2.to,
   to |-> RunStages(AfterProbes(s), 1, m3, d).to]
ProbesSecond(s, m0, m1, m2, d) ==
  ProbesDone(s, m0, m1, m2,
             RunStages(ProbeTwo(s), 1, m2, IF s = "leapfrog" THEN d ELSE d \div 2), d)
ProbesFirst(s, m0, m1, d) ==
  ProbesSecond(s, m0, m1, RunStages(BetweenProbes(s), 1, m1, d), d)
ProbesFrom(s, m0, d) == ProbesFirst(s, m0, RunStages(ProbeOne(s), 1, m0, d), d)

\* One candidate dt of a search whose clock is tt and whose *t is tstart;
\* symplec4_estimate_step sets to= *t for every candidate.
Probes(s, base, tstart, tt, d) ==
  ProbesFrom(s, [buf |-> ProbeBufs(base),
                 to |-> IF s = "symplec4" THEN tstart ELSE tt], d)

\* what the save of a macro interval copies into the result buffer
SavedBlock(s, b, construct_Lz) ==
  IF s = "symplec6" THEN save_qp(b.qo, b.po)
  ELSE save_result(b.yo, construct_Lz)

\* (long) (init_dt/dt): the quotient truncated toward zero
Trunc(a, b) ==
  IF (a >= 0) = (b > 0) THEN (IF a >= 0 THEN a ELSE -a) \div (IF b > 0 THEN b ELSE -b)
  ELSE -((IF a >= 0 THEN a ELSE -a) \div (IF b > 0 THEN b ELSE -b))

----------------------------------------------------------------------------
(* Inputs *)

StepSizes == {16 * CoefDen}
\* t[1]-t[0]: 1..MaxNdt steps of 16 units, and one that the step does not divide
Intervals ==
  {n * 16 * CoefDen : n \in 1..MaxNdt} \cup {MaxNdt * 16 * CoefDen + 8 * CoefDen}
StartTimes == {3 * CoefDen}

\* log-tolerances rtol, atol as the caller passes them
TolVals == {-2, 2}
\* what metric (leapfrog, symplec4) or |q11-q12|, |p11-p12| (symplec6) gives in
\* every component for one candidate step, an integer number of 1/FP
MetricVals == {0, 50, 1000, 3000}
\* what tol_scaling gives in every component, an integer number of 1/FP
Scaling == 1 * 100
\* max |qo[i]| and max |po[i]| of the initial condition (symplec6_estimate_step)
MaxAbs == [q |-> 1, p |-> 2]
\* the probe interval of a step-size search that is called on its own
SearchIntervals == {65536 * CoefDen}

\* rtol, atol of a call of an integrator
CallTol == [rtol |-> 2, atol |-> 2]

\* the initial condition handed to a first call
FreshBufs(s) ==
  IF s = "symplec6"
  THEN [NoBufs EXCEPT !.qo = Val("q", <<>>), !.po = Val("p", <<>>)]
  ELSE [NoBufs EXCEPT !.yo = Val("y", <<>>)]

----------------------------------------------------------------------------
(* State of an idle thread *)

IdleCall ==
  [pc |-> "idle", scheme |-> "leapfrog", nt |-> 2, dt |-> 0, t0 |-> 0,
   init_dt |-> 0, ndt |-> 0, ii |-> 0, jj |-> 0, kx |-> 0, to |-> 0,
   buf |-> NoBufs, yo0 |-> NoBufs, construct_Lz |-> FALSE, rev |-> FALSE]

NoSig == [ii |-> -1, body |-> FALSE, ahead |-> FALSE]
IdleHist == [polls |-> 0, observedAt |-> -1, sigFirst |-> NoSig, writes |-> <<>>]

IdleOut == [result |-> [k \in 0..(MaxNt - 1) |-> Unwritten], pos |-> 0, err |-> 0]

IdleEst ==
  [pc |-> "idle", scheme |-> "leapfrog", caller |-> "none", err |-> 0, dt |-> 0,
   init_dt |-> 0, to |-> 0, rtol |-> 0, atol |-> 0, tried |-> <<>>,
   own |-> <<>>, halved |-> "none", prevdt |-> 0,
   t0 |-> 0, h1 |-> <<>>, h2 |-> <<>>, s1 |-> 0, s2 |-> 0]

NoPrev == [err |-> 0, written |-> 0, nt |-> 0]

Init ==
  /\ interrupted = 0
  /\ sigHandler = "SIG_DFL"
  /\ call = [t \in Threads |-> IdleCall]
  /\ est = [t \in Threads |-> IdleEst]
  /\ out = [t \in Threads |-> IdleOut]
  /\ hist = [t \in Threads |-> IdleHist]
  /\ evalr = <<>>
  /\ prev = NoPrev
  /\ heap = {}

----------------------------------------------------------------------------
(* Scratch buffers: malloc and free *)

\* the step-size search of a scheme
EstimateStep(s) ==
  CASE s = "leapfrog" -> "leapfrog_estimate_step"
    [] s = "symplec4" -> "symplec4_estimate_step"
    [] s = "symplec6" -> "symplec6_estimate_step"

\* the pointers a function assigns from malloc
Mallocs(fn) ==
  CASE fn = "symplec6" -> {"qo", "po", "q12", "p12", "a"}
    [] fn = "leapfrog_estimate_step" -> {"y11", "y12", "delta", "scaling", "scale2"}
    [] fn = "symplec4_estimate_step" -> {"y11", "y12", "delta", "scaling", "scale2"}
    [] fn = "symplec6_estimate_step" ->
         {"q11", "q12", "p11", "p12", "qtmp", "ptmp", "a", "scale"}
    [] OTHER -> {}

\* the pointers a function passes to free before it returns
Frees(fn) ==
  CASE fn = "symplec6" -> {"qo", "po", "q12", "a"}
    [] fn = "leapfrog_estimate_step" -> {"y11", "y12", "delta", "scaling", "scale2"}
    [] fn = "symplec4_estimate_step" -> {"y11", "y12", "delta", "scaling", "scale2"}
    [] fn = "symplec6_estimate_step" ->
         {"q11", "q12", "p11", "qtmp", "ptmp", "a", "scale"}
    [] OTHER -> {}

\* the heap after thread t has run the mallocs / the frees of fn
Malloc(hp, t, fn) == hp \cup {<<t, fn, b>> : b \in Mallocs(fn)}
Free(hp, t, fn) == hp \ {<<t, fn, b>> : b \in Frees(fn)}

----------------------------------------------------------------------------
(* leapfrog_estimate_step, symplec4_estimate_step, symplec6_estimate_step:
   the scale, the error norm and the entry *)

\* scale2[ii] = pow ( exp(atol) + exp(rtol) * scaling[ii], 2), kept as its root
Scale(rtol, atol) == Exp(atol) + (Exp(rtol) * Scaling) \div FP

\* symplec6: exp(s) for s= log(exp(atol-c)+exp(rtol*max_val-c))+c
ScaleLSE(rtol, atol, max_val) == Exp(atol) + Exp(rtol * max_val)

\* delta * delta / scale2 (or exp(2.*log(fabs(delta))-2.*scale)), in 1/FP
Term(delta, sc) == (delta * delta * FP) \div (sc * sc)

\* the sum the for loop adds to err for a candidate whose differences are all v
SumTerms(s, v, rtol, atol) ==
  IF s = "symplec6"
  THEN Dim * Term(v, ScaleLSE(rtol, atol, MaxAbs.q))
       + Dim * Term(v, ScaleLSE(rtol, atol, MaxAbs.p))
  ELSE Dim * Term(v, Scale(rtol, atol))

\* the value err has before the for loop adds to it:
\* leapfrog and symplec6 set err= 0., symplec4 does not
ErrStart(s, err) == IF s = "symplec4" THEN err ELSE 0

\* err= sqrt(err/dim)  (symplec6: sqrt(err/2./dim))
NormErr(s, acc, v, rtol, atol) ==
  Sqrt((acc + SumTerms(s, v, rtol, atol)) \div (IF s = "symplec6" THEN 2 * Dim ELSE Dim))

\* EstContinue with the ratio of the cap upside down: dt / init_dt
EstContinue_Swapped(e) == e.err > FP /\ Trunc(e.dt, e.init_dt) < MAX_DT_REDUCE

\* while ( err > 1. && init_dt / dt < _MAX_DT_REDUCE )
EstContinue(e) == e.err > FP /\ Trunc(e.init_dt, e.dt) < MAX_DT_REDUCE

\* entry of *_estimate_step: err= 2., init_dt= dt, the scale, dt*= 2.
EstEnter(s, who, idt, tstart, rt, at, hv, pdt) ==
  [pc |-> "trial", scheme |-> s, caller |-> who, err |-> 2 * FP, dt |-> 2 * idt,
   init_dt |-> idt, to |-> tstart, rtol |-> rt, atol |-> at, tried |-> <<>>,
   own |-> <<>>, halved |-> hv, prevdt |-> pdt,
   t0 |-> tstart, h1 |-> <<>>, h2 |-> <<>>, s1 |-> tstart, s2 |-> tstart]

----------------------------------------------------------------------------
(* leapfrog, symplec4, symplec6 *)

\* InitBufs without the multiplication of yo[2] by yo[0]
InitBufs_NoMul(s, b, construct_Lz) == b

\* the buffers after the initialisation: if ( construct_Lz ) *(yo+2) *= *yo
InitBufs(s, b, construct_Lz) ==
  IF s # "symplec6" /\ construct_Lz THEN [b EXCEPT !.yo = MulLz(b.yo)] ELSE b

\* Entry of leapfrog / symplec4 / symplec6 up to the step-size estimate:
\* block 0 is saved, *err= 0, construct_Lz is applied, init_dt= t[1]-t[0].
Enter(t, s, n, tstart, iv, d, lz, b, rv) ==
  /\ est' = [est EXCEPT ![t] =
       IF d = DT_SENTINEL
       THEN EstEnter(s, "integrate", iv, tstart, CallTol.rtol, CallTol.atol, "none", 0)
       ELSE IdleEst]
  /\ evalr' = <<>>
  /\ call' = [call EXCEPT ![t] =
       [pc |-> IF d = DT_SENTINEL THEN "estimate" ELSE "setup",
        scheme |-> s, nt |-> n, dt |-> d, t0 |-> tstart, init_dt |-> iv,
        ndt |-> 0, ii |-> 0, jj |-> 0, kx |-> 0, to |-> 0,
        buf |-> InitBufs(s, b, lz), yo0 |-> b, construct_Lz |-> lz,
        rev |-> rv]]
  /\ out' = [out EXCEPT ![t] =
       [result |-> [k \in 0..(MaxNt - 1) |->
                      IF k = 0 THEN SavedBlock(s, b, FALSE) ELSE Unwritten],
        pos |-> 1, err |-> 0]]
  /\ hist' = [hist EXCEPT ![t] = [IdleHist EXCEPT !.writes = <<0>>]]
  /\ prev' = IF call[t].pc = "done"
             THEN [err |-> out[t].err, written |-> out[t].pos, nt |-> call[t].nt]
             ELSE prev
  /\ heap' = LET h1 == Malloc(heap, t, IF s = "symplec6" THEN s ELSE "none")
             IN IF d = DT_SENTINEL THEN Malloc(h1, t, EstimateStep(s)) ELSE h1

CallWith(t, nts, ivs, ds, lzs) ==
  /\ \E s \in Schemes, n \in nts, iv \in ivs, d \in ds, lz \in lzs,
        ts \in StartTimes :
       /\ s = "symplec6" => ~lz
       /\ Enter(t, s, n, ts, iv, d, lz, FreshBufs(s), FALSE)
  /\ UNCHANGED <<interrupted, sigHandler>>

\* a call of leapfrog, symplec4 or symplec6 on a fresh initial condition
Call(t) ==
  /\ call[t].pc \in {"idle", "done"}
  /\ CallWith(t, 2..MaxNt, Intervals, StepSizes \cup {DT_SENTINEL}, BOOLEAN)

\* the one call of a thread that integrates beside another thread
CallBeside(t) ==
  /\ call[t].pc = "idle"
  /\ CallWith(t, {MaxNt}, {16 * CoefDen}, StepSizes, {FALSE})

\* the state a finished call leaves with its caller
FinalBufs(t) ==
  IF call[t].scheme = "symplec6"
  THEN [NoBufs EXCEPT !.qo = out[t].result[call[t].nt - 1].y,
                      !.po = out[t].result[call[t].nt - 1].p]
  ELSE [NoBufs EXCEPT !.yo = call[t].buf.yo]

\* the same integrator called on the final state of a completed call, with the
\* time grid reversed and the step negated
CallReversed(t) ==
  /\ call[t].pc = "done"
  /\ ~call[t].rev
  /\ out[t].err = 0
  /\ Enter(t, call[t].scheme, call[t].nt,
           call[t].t0 + (call[t].nt - 1) * call[t].init_dt,
           -call[t].init_dt, -call[t].dt, call[t].construct_Lz,
           FinalBufs(t), TRUE)
  /\ UNCHANGED <<interrupted, sigHandler>>

\* Setup with ndt the quotient rounded to the nearest integer
Setup_Rounded(t) ==
  /\ call[t].pc = "setup"
  /\ call' = [call EXCEPT ![t].ndt = Trunc(2 * call[t].init_dt + call[t].dt,
                                           2 * call[t].dt),
                          ![t].to = call[t].t0,
                          ![t].ii = 0,
                          ![t].pc = "loop"]
  /\ sigHandler' = "handle_sigint"
  /\ UNCHANGED <<interrupted, est, out, hist, evalr, prev, heap>>

\* ndt= (long) (init_dt/dt); to= *t; sigaction(SIGINT, handle_sigint)
Setup(t) ==
  /\ call[t].pc = "setup"
  /\ call' = [call EXCEPT ![t].ndt = Trunc(call[t].init_dt, call[t].dt),
                          ![t].to = call[t].t0,
                          ![t].ii = 0,
                          ![t].pc = "loop"]
  /\ sigHandler' = "handle_sigint"
  /\ UNCHANGED <<interrupted, est, out, hist, evalr, prev, heap>>

\* LoopHead with the flag read in every other iteration only
LoopHead_EveryOther(t) ==
  /\ call[t].pc = "loop"
  /\ IF call[t].ii < call[t].nt - 1
     THEN LET seen == interrupted # 0 /\ call[t].ii % 2 = 0
          IN /\ hist' = [hist EXCEPT ![t].polls = @ + 1,
                                     ![t].observedAt = IF seen THEN call[t].ii ELSE @]
             /\ call' = [call EXCEPT ![t].pc = IF seen THEN "cancel" ELSE "head",
                                     ![t].kx = 1]
     ELSE /\ call' = [call EXCEPT ![t].pc = "restore"]
          /\ UNCHANGED hist
  /\ UNCHANGED <<interrupted, sigHandler, est, out, evalr, prev, heap>>

\* for (ii=0; ii < (nt-1); ii++){ if ( interrupted ) {
LoopHead(t) ==
  /\ call[t].pc = "loop"
  /\ IF call[t].ii < call[t].nt - 1
     THEN /\ hist' = [hist EXCEPT ![t].polls = @ + 1,
                                  ![t].observedAt =
                                     IF interrupted # 0 THEN call[t].ii ELSE @]
          /\ call' = [call EXCEPT ![t].pc =
                        IF interrupted # 0 THEN "cancel" ELSE "head",
                                  ![t].kx = 1]
     ELSE /\ call' = [call EXCEPT ![t].pc = "restore"]
          /\ UNCHANGED hist
  /\ UNCHANGED <<interrupted, sigHandler, est, out, evalr, prev, heap>>

\* Cancel without the break: the loop goes on after the flag is cleared
Cancel_NoBreak(t) ==
  /\ call[t].pc = "cancel"
  /\ out' = [out EXCEPT ![t].err = ERR_INTERRUPTED]
  /\ interrupted' = 0
  /\ call' = [call EXCEPT ![t].pc = "head"]
  /\ UNCHANGED <<sigHandler, est, hist, evalr, prev, heap>>

\* *err= -10; interrupted= 0; break;
Cancel(t) ==
  /\ call[t].pc = "cancel"
  /\ out' = [out EXCEPT ![t].err = ERR_INTERRUPTED]
  /\ interrupted' = 0
  /\ call' = [call EXCEPT ![t].pc = "restore"]
  /\ UNCHANGED <<sigHandler, est, hist, evalr, prev, heap>>

StagesAt(c) ==
  CASE c.pc = "head" -> HeadStages(c.scheme)
    [] c.pc = "inner" -> InnerStages(c.scheme)
    [] c.pc = "tail" -> TailStages(c.scheme)

\* where control goes after statement group kx of the current phase
Advance(c) ==
  IF c.kx < Len(StagesAt(c)) THEN [c EXCEPT !.kx = @ + 1]
  ELSE CASE c.pc = "head" ->
              IF 0 < c.ndt - 1
              THEN [c EXCEPT !.pc = "inner", !.jj = 0, !.kx = 1]
              ELSE [c EXCEPT !.pc = "tail", !.jj = 0, !.kx = 1]
         [] c.pc = "inner" ->
              IF c.jj + 1 < c.ndt - 1
              THEN [c EXCEPT !.jj = @ + 1, !.kx = 1]
              ELSE [c EXCEPT !.pc = "tail", !.jj = @ + 1, !.kx = 1]
         [] c.pc = "tail" -> [c EXCEPT !.pc = "save"]

\* the locals c of a run after a statement group that left buffers and clock m
AfterStage(c, m) == Advance([c EXCEPT !.buf = m.buf, !.to = m.to])

\* one statement group of the macro interval whose op is in ops
Stage(t, ops) ==
  /\ call[t].pc \in {"head", "inner", "tail"}
  /\ LET c == call[t]
         ins == StagesAt(c)[c.kx]
     IN /\ ins.op \in ops
        /\ call' = [call EXCEPT ![t] = AfterStage(c, Exec(ins, c.buf, c.to, c.dt))]
  /\ UNCHANGED <<interrupted, sigHandler, est, out, hist, evalr, prev, heap>>

Drift(t) == Stage(t, {"drift"})
Kick(t) == Stage(t, {"kick"})
LeapQ(t) == Stage(t, {"leapq"})
LeapP(t) == Stage(t, {"leapp"})
CopyBack(t) == Stage(t, {"reset", "p8"})

\* Save without result+= dim: every interval overwrites block 1
Save_NoAdvance(t) ==
  /\ call[t].pc = "save"
  /\ out' = [out EXCEPT ![t].result[out[t].pos] =
                          SavedBlock(call[t].scheme, call[t].buf, call[t].construct_Lz)]
  /\ hist' = [hist EXCEPT ![t].writes = Append(@, out[t].pos)]
  /\ call' = [call EXCEPT ![t].ii = @ + 1, ![t].pc = "loop"]
  /\ UNCHANGED <<interrupted, sigHandler, est, evalr, prev, heap>>

\* save_result(dim,yo,result,construct_Lz); result+= dim;  (and ii++)
Save(t) ==
  /\ call[t].pc = "save"
  /\ out' = [out EXCEPT ![t].result[out[t].pos] =
                          SavedBlock(call[t].scheme, call[t].buf, call[t].construct_Lz),
                        ![t].pos = @ + 1]
  /\ hist' = [hist EXCEPT ![t].writes = Append(@, out[t].pos)]
  /\ call' = [call EXCEPT ![t].ii = @ + 1, ![t].pc = "loop"]
  /\ UNCHANGED <<interrupted, sigHandler, est, evalr, prev, heap>>

\* action.sa_handler= SIG_DFL; sigaction(SIGINT,&action,NULL); return
Restore(t) ==
  /\ call[t].pc = "restore"
  /\ sigHandler' = "SIG_DFL"
  /\ call' = [call EXCEPT ![t].pc = "done"]
  /\ heap' = Free(heap, t, IF call[t].scheme = "symplec6" THEN "symplec6" ELSE "none")
  /\ UNCHANGED <<interrupted, est, out, hist, evalr, prev>>

\* the call c has a poll of the flag still before it
PollAhead(c) ==
  \/ c.pc = "loop" /\ c.ii < c.nt - 1
  \/ c.pc \in {"head", "inner", "tail", "save"} /\ c.ii + 1 < c.nt - 1

InLoop(c) == c.pc \in {"loop", "cancel", "head", "inner", "tail", "save", "restore"}

\* handle_sigint: interrupted= 1 (delivered while the handler is installed)
Sigint ==
  /\ sigHandler = "handle_sigint"
  /\ interrupted' = 1
  /\ hist' = [t \in Threads |->
        IF InLoop(call[t]) /\ hist[t].sigFirst = NoSig
        THEN [hist[t] EXCEPT !.sigFirst =
                [ii |-> call[t].ii,
                 body |-> call[t].pc \in {"head", "inner", "tail", "save"},
                 ahead |-> PollAhead(call[t])]]
        ELSE hist[t]]
  /\ UNCHANGED <<sigHandler, call, est, out, evalr, prev, heap>>

----------------------------------------------------------------------------
(* The loop of the step-size searches *)

\* the locals e of a search after the candidate ndt: pr what the probes did,
\* nerr the norm, own whether the candidate's own error is <= 1
EstTried(e, ndt, pr, nerr, own) ==
  [e EXCEPT !.dt = ndt, !.err = nerr, !.to = pr.to, !.h1 = pr.h1, !.h2 = pr.h2,
            !.s1 = pr.s1, !.s2 = pr.s2, !.tried = Append(@, ndt),
            !.own = Append(@, own)]

\* one iteration of the while loop: dt/= 2., the two probes, the norm
EstTrial(t) ==
  /\ est[t].pc = "trial"
  /\ EstContinue(est[t])
  /\ LET e == est[t]
         k == Len(e.tried) + 1
         ndt == e.dt \div 2
         base == IF e.caller = "integrate" THEN call[t].buf ELSE FreshBufs(e.scheme)
         pr == Probes(e.scheme, base, e.t0, e.to, ndt)
     IN \E v \in MetricVals :
          /\ IF k <= Len(evalr) THEN v = evalr[k]
             ELSE k > 1 => v <= evalr[k - 1]
          /\ LET nerr == NormErr(e.scheme, ErrStart(e.scheme, e.err), v, e.rtol, e.atol)
             IN /\ (e.caller = "integrate" /\ nerr > FP) =>
                     2 * Trunc(e.init_dt, ndt) <= MaxNdt
                /\ est' = [est EXCEPT ![t] =
                             EstTried(e, ndt, pr, nerr,
                                      NormErr(e.scheme, 0, v, e.rtol, e.atol) <= FP)]
          /\ evalr' = IF k <= Len(evalr) THEN evalr ELSE Append(evalr, v)
  /\ UNCHANGED <<interrupted, sigHandler, call, out, hist, prev, heap>>

\* return dt; to leapfrog / symplec4 / symplec6, which assign it to dt
EstReturn(t) ==
  /\ est[t].pc = "trial"
  /\ ~EstContinue(est[t])
  /\ est[t].caller = "integrate"
  /\ call[t].pc = "estimate"
  /\ call' = [call EXCEPT ![t].dt = est[t].dt, ![t].pc = "setup"]
  /\ est' = [est EXCEPT ![t] = IdleEst]
  /\ evalr' = <<>>
  /\ heap' = Free(heap, t, EstimateStep(est[t].scheme))
  /\ UNCHANGED <<interrupted, sigHandler, out, hist, prev>>

\* return dt; to a caller of the search itself
EstReturnDirect(t) ==
  /\ est[t].pc = "trial"
  /\ ~EstContinue(est[t])
  /\ est[t].caller = "direct"
  /\ est' = [est EXCEPT ![t].pc = "ret"]
  /\ heap' = Free(heap, t, EstimateStep(est[t].scheme))
  /\ UNCHANGED <<interrupted, sigHandler, call, out, hist, evalr, prev>>

\* a call of a step-size search with a fresh evaluator
EstCall(t) ==
  /\ est[t].pc \in {"idle", "ret"}
  /\ call[t].pc = "idle"
  /\ \E s \in Schemes, idt \in SearchIntervals, ts \in StartTimes,
        rt \in TolVals, at \in TolVals :
       /\ est' = [est EXCEPT ![t] = EstEnter(s, "direct", idt, ts, rt, at, "none", 0)]
       /\ heap' = Malloc(heap, t, EstimateStep(s))
  /\ evalr' = <<>>
  /\ UNCHANGED <<interrupted, sigHandler, call, out, hist, prev>>

Half(x) == x \div 2

\* the same search again, same evaluator, state and probe interval, with
\* atol, rtol or both halved
EstCallHalved(t) ==
  /\ est[t].pc = "ret"
  /\ est[t].halved = "none"
  /\ \E hv \in {"atol", "rtol", "both"} :
       est' = [est EXCEPT ![t] =
                 EstEnter(est[t].scheme, "direct", est[t].init_dt, est[t].t0,
                          IF hv \in {"rtol", "both"} THEN Half(est[t].rtol) ELSE est[t].rtol,
                          IF hv \in {"atol", "both"} THEN Half(est[t].atol) ELSE est[t].atol,
                          hv, est[t].dt)]
  /\ heap' = Malloc(heap, t, EstimateStep(est[t].scheme))
  /\ UNCHANGED <<interrupted, sigHandler, call, out, hist, evalr, prev>>

NextSearch ==
  \/ EstCall(Main)
  \/ EstCallHalved(Main)
  \/ EstTrial(Main)
  \/ EstReturnDirect(Main)

SpecSearch == Init /\ [][NextSearch]_vars


Next ==
  \/ Call(Main)
  \/ EstTrial(Main)
  \/ EstReturn(Main)
  \/ Setup(Main)
  \/ LoopHead(Main)
  \/ Cancel(Main)
  \/ Drift(Main)
  \/ Kick(Main)
  \/ LeapQ(Main)
  \/ LeapP(Main)
  \/ CopyBack(Main)
  \/ Save(Main)
  \/ Restore(Main)
  \/ Sigint

Spec == Init /\ [][Next]_vars

\* two threads of one process, each in one call of an integrator
NextBeside ==
  \E t \in Threads :
    \/ CallBeside(t)
    \/ Setup(t)
    \/ LoopHead(t)
    \/ Cancel(t)
    \/ Drift(t)
    \/ Kick(t)
    \/ LeapQ(t)
    \/ LeapP(t)
    \/ CopyBack(t)
    \/ Save(t)
    \/ Restore(t)
    \/ Sigint

SpecBeside == Init /\ [][NextBeside]_vars

\* calls that no signal reaches, each possibly followed by the reversed call
NextReversed ==
  \/ Call(Main)
  \/ CallReversed(Main)
  \/ EstTrial(Main)
  \/ EstReturn(Main)
  \/ Setup(Main)
  \/ LoopHead(Main)
  \/ Drift(Main)
  \/ Kick(Main)
  \/ LeapQ(Main)
  \/ LeapP(Main)
  \/ CopyBack(Main)
  \/ Save(Main)
  \/ Restore(Main)

SpecReversed == Init /\ [][NextReversed]_vars

----------------------------------------------------------------------------
(* The run no cancellation disturbs, computed from the stage lists *)

RECURSIVE RunInner(_, _, _, _)
RunInner(s, n, m, d) ==
  IF n <= 0 THEN m ELSE RunInner(s, n - 1, RunStages(InnerStages(s), 1, m, d), d)

\* one macro interval: head, ndt-1 inner bodies, tail
RunInterval(s, m, d, n) ==
  RunStages(TailStages(s), 1,
            RunInner(s, n - 1, RunStages(HeadStages(s), 1, m, d), d), d)

RECURSIVE RunIntervals(_, _, _, _, _)
RunIntervals(s, m, d, n, k) ==
  IF k <= 0 THEN m ELSE RunIntervals(s, RunInterval(s, m, d, n), d, n, k - 1)

\* block k of the result of the call c when nothing interrupts it
RefBlock(c, k) ==
  IF k = 0 THEN SavedBlock(c.scheme, c.yo0, FALSE)
  ELSE SavedBlock(c.scheme,
                  RunIntervals(c.scheme,
                               [buf |-> InitBufs(c.scheme, c.yo0, c.construct_Lz),
                                to |-> c.t0],
                               c.dt, c.ndt, k).buf,
                  c.construct_Lz)

Returned(t) == call[t].pc = "done"

----------------------------------------------------------------------------
(* Claims *)

\* C1: when the flag is found set at the poll that precedes macro interval k
\* (the poll of iteration ii = k-1), the call returns -10, has written exactly
\* blocks 0..k-1 in this order, leaves every later block untouched, and the
\* k blocks are those of the uninterrupted run on the same inputs.
C1_InterruptedPrefix ==
  \A t \in Threads :
    (Returned(t) /\ hist[t].observedAt >= 0) =>
      LET k == hist[t].observedAt + 1
      IN /\ out[t].err = ERR_INTERRUPTED
         /\ hist[t].writes = [i \in 1..k |-> i - 1]
         /\ \A j \in 0..(MaxNt - 1) :
              out[t].result[j] = IF j < k THEN RefBlock(call[t], j) ELSE Unwritten

C1_Witness ==
  /\ Returned(Main)
  /\ hist[Main].observedAt = 1
  /\ call[Main].scheme = "symplec6"
  /\ call[Main].ndt = 2

\* C2: whenever a call returns the flag `interrupted` is clear, whenever during
\* the call the signal came; hence a call during which no signal comes
\* returns 0 with all nt blocks written.
C2_FlagClearAtReturn ==
  \A t \in Threads :
    Returned(t) =>
      /\ interrupted = 0
      /\ hist[t].sigFirst = NoSig => (out[t].err = 0 /\ out[t].pos = call[t].nt)

\* C4: the flag is read once per macro interval started, at the head of the
\* loop iteration only; a signal that comes while interval k (not the last) is
\* computed lets the interval finish and save its block, and is seen before
\* any statement of interval k+1 runs.
C4_PollOncePerInterval ==
  \A t \in Threads :
    LET c == call[t]
        hh == hist[t]
        k == hh.sigFirst.ii
    IN /\ (InLoop(c) \/ c.pc = "done") =>
            hh.polls = c.ii + (IF c.pc \in {"cancel", "head", "inner", "tail", "save"}
                                  \/ hh.observedAt >= 0 THEN 1 ELSE 0)
       /\ (hh.sigFirst.body /\ k < c.nt - 2) =>
            /\ c.ii <= k + 1
            /\ c.ii = k + 1 => c.pc \in {"loop", "cancel", "restore", "done"}
            /\ c.pc \in {"restore", "done"} =>
                 /\ hh.observedAt = k + 1
                 /\ out[t].pos = k + 2
                 /\ out[t].result[k + 1] = RefBlock(c, k + 1)

C4_Witness ==
  /\ Returned(Main)
  /\ hist[Main].sigFirst = [ii |-> 0, body |-> TRUE, ahead |-> TRUE]
  /\ call[Main].nt = 3
  /\ out[Main].pos = 2

\* C5: the outputs of an interrupted call tell the caller how many leading
\* blocks are valid: two calls on buffers of the same size that return the
\* same status have written the same number of blocks.
C5_StatusTellsPrefix ==
  (Returned(Main) /\ prev.nt = call[Main].nt /\ prev.err = out[Main].err) =>
    prev.written = out[Main].pos

\* C6: a call that never sees the flag set returns 0 with exactly nt blocks,
\* block 0 the initial state and block k the state after the k-th macro
\* interval; blocks are written in increasing order, each once, none past
\* block nt-1; the status is 0 or -10.
C6_CompleteRun ==
  \A t \in Threads :
    LET c == call[t]
        o == out[t]
    IN /\ o.err \in {0, ERR_INTERRUPTED}
       /\ c.pc # "idle" =>
            /\ o.pos <= c.nt
            /\ hist[t].writes = [i \in 1..o.pos |-> i - 1]
            /\ \A j \in 0..(MaxNt - 1) : j >= o.pos => o.result[j] = Unwritten
       /\ (Returned(t) /\ hist[t].observedAt = -1) =>
            /\ o.err = 0
            /\ o.pos = c.nt
            /\ \A j \in 0..(c.nt - 1) : o.result[j] = RefBlock(c, j)

C6_Witness ==
  /\ Returned(Main)
  /\ out[Main].err = 0
  /\ call[Main].nt = MaxNt
  /\ call[Main].ndt = MaxNdt
  /\ call[Main].scheme = "symplec4"
  /\ out[Main].result[MaxNt - 1].y.kind = "y"

\* C3: when one signal sets the flag while several integrations run with a
\* poll still before them, every one of them returns -10.
C3_AllRunningCancelled ==
  \A t \in Threads :
    (Returned(t) /\ hist[t].sigFirst.ahead) => out[t].err = ERR_INTERRUPTED

RECURSIVE Pow2(_)
Pow2(k) == IF k <= 0 THEN 1 ELSE 2 * Pow2(k - 1)

\* C7: a step-size search tries init_dt first, then halves; it makes at most
\* 15 trials and returns init_dt / 2^k with 0 <= k <= 14, k+1 the number of
\* trials; when it returns with the error still above 1 it has hit the cap,
\* returns the smallest step tried and leaves the status alone.
C7_SearchTerminates ==
  \A t \in Threads :
    LET e == est[t]
        n == Len(e.tried)
    IN /\ n <= 15
       /\ n >= 1 => e.tried[1] = e.init_dt
       /\ \A i \in 2..n : 2 * e.tried[i] = e.tried[i - 1]
       /\ e.pc = "ret" =>
            /\ n >= 1
            /\ e.dt = e.tried[n]
            /\ e.dt * Pow2(n - 1) = e.init_dt
            /\ e.dt <= e.init_dt
            /\ e.dt >= e.init_dt \div 16384
            /\ e.err > FP => n = 15
            /\ out[t].err = 0

C7_Witness ==
  /\ est[Main].pc = "ret"
  /\ Len(est[Main].tried) = 15
  /\ est[Main].err > FP

\* C8: the search returns the first candidate of init_dt, init_dt/2, ... whose
\* own root-mean-square normalized error, summed from zero, is <= 1, or the
\* 15th candidate when there is none.
C8_OwnErrorDecides ==
  \A t \in Threads :
    LET e == est[t]
        n == Len(e.tried)
    IN e.pc = "ret" =>
         /\ \A i \in 1..(n - 1) : ~e.own[i]
         /\ e.own[n] \/ n = 15

\* C9: with the evaluator, the state and the probe interval fixed, the search
\* with atol, rtol or both halved returns no larger a step.
C9_HalvedTolNoLargerStep ==
  \A t \in Threads :
    (est[t].pc = "ret" /\ est[t].halved # "none") => est[t].dt <= est[t].prevdt

\* the history h with every call cancelled against the call that undoes it:
\* drift(-dt) after drift(dt), kick(-dt,t) after kick(dt,t)
RECURSIVE Reduce(_, _, _)
Reduce(hh, i, stack) ==
  IF i > Len(hh) THEN stack
  ELSE LET o == hh[i]
           n == Len(stack)
       IN IF n > 0 /\ stack[n].op = o.op /\ stack[n].t = o.t
             /\ stack[n].dt = -o.dt /\ o.op \in {"drift", "kick"}
          THEN Reduce(hh, i + 1, SubSeq(stack, 1, n - 1))
          ELSE Reduce(hh, i + 1, Append(stack, o))

\* C10: leapfrog and symplec4, construct_Lz off, the step dividing the
\* interval: the reversed call on the final state of a completed call ends in
\* the initial state.
C10_TimeSymmetry ==
  \A t \in Threads :
    LET c == call[t]
    IN (Returned(t) /\ c.rev /\ out[t].err = 0
        /\ c.scheme \in {"leapfrog", "symplec4"}
        /\ ~c.construct_Lz /\ c.ndt * c.dt = c.init_dt) =>
         Reduce(c.buf.yo.h, 1, <<>>) = <<>>

C10_Witness ==
  /\ Returned(Main)
  /\ call[Main].rev
  /\ call[Main].scheme = "symplec4"
  /\ call[Main].nt = MaxNt
  /\ call[Main].ndt = MaxNdt
  /\ call[Main].ndt * call[Main].dt = call[Main].init_dt
  /\ ~call[Main].construct_Lz
  /\ Len(call[Main].buf.yo.h) > 0

\* C11: every scratch buffer a call allocates is freed before the call
\* returns, completed or interrupted: a thread that is in no call of an
\* integrator or of a step-size search holds no live scratch buffer.
C11_ScratchFreedAtReturn ==
  \A t \in Threads :
    (call[t].pc \in {"idle", "done"} /\ est[t].pc \in {"idle", "ret"}) =>
      \A b \in heap : b[1] # t

\* the drift and the kick coefficients of the elementary step of a scheme
DriftCoefs(s) ==
  IF s = "symplec4" THEN << S4_c1, S4_c2, S4_c3, S4_c4 >>
  ELSE << S6_c1, S6_c2, S6_c3, S6_c4, S6_c5, S6_c6, S6_c7, S6_c8 >>
KickCoefs(s) ==
  IF s = "symplec4" THEN << S4_d1, S4_d2, S4_d3 >>
  ELSE << S6_d1, S6_d2, S6_d3, S6_d4, S6_d5, S6_d6, S6_d7 >>

\* the duration of the first n drifts of an elementary step with step d
RECURSIVE DriftTime(_, _, _)
DriftTime(cs, n, d) == IF n <= 0 THEN 0 ELSE DriftTime(cs, n - 1, d) + Mul(cs[n], d)

\* the calls of one elementary step that starts at time tt: drift c1, kick d1,
\* ..., the last drift; each kick at tt plus the drifts before it
ElementaryStep(s, tt, d) ==
  LET cs == DriftCoefs(s)
      ds == KickCoefs(s)
  IN [i \in 1..(2 * Len(ds) + 1) |->
        IF i % 2 = 1 THEN Op("drift", Mul(cs[(i + 1) \div 2], d), 0)
        ELSE Op("kick", Mul(ds[i \div 2], d), tt + DriftTime(cs, i \div 2, d))]

\* n elementary steps one after the other, the first at time tt
RECURSIVE ElementarySteps(_, _, _, _)
ElementarySteps(s, tt, d, n) ==
  IF n <= 0 THEN <<>>
  ELSE ElementaryStep(s, tt, d)
       \o ElementarySteps(s, tt + DriftTime(DriftCoefs(s), Len(DriftCoefs(s)), d), d, n - 1)

\* the history hh with consecutive drifts composed: drift(a) then drift(b) is
\* drift(a+b)
RECURSIVE Compose(_, _, _)
Compose(hh, i, acc) ==
  IF i > Len(hh) THEN acc
  ELSE LET o == hh[i]
           n == Len(acc)
       IN IF n > 0 /\ o.op = "drift" /\ acc[n].op = "drift"
          THEN Compose(hh, i + 1, [acc EXCEPT ![n].dt = @ + o.dt])
          ELSE Compose(hh, i + 1, Append(acc, o))

\* the history of the state the call c started from, after its initialisation
StartHistory(c) ==
  IF c.scheme = "symplec6" THEN Joined(c.yo0.qo.h, c.yo0.po.h)
  ELSE InitBufs(c.scheme, c.yo0, c.construct_Lz).yo.h

\* C12: symplec4 and symplec6, drifts composing additively: the state and the
\* internal time at the save of a macro interval are those of ndt elementary
\* steps per interval (4 drifts / 3 kicks, 8 drifts / 7 kicks); in symplec6 the
\* position in q12 and the momentum in po at the start of an inner iteration
\* and of the tail are those of the steps done so far and the drift c1.
C12_FusedEqualsUnfused ==
  \A t \in Threads :
    LET c == call[t]
        s == c.scheme
        done == c.ii * c.ndt + c.jj
        after == c.t0 + DriftTime(DriftCoefs(s), Len(DriftCoefs(s)), c.dt) * done
    IN (s \in {"symplec4", "symplec6"} /\ c.ndt >= 1) =>
         /\ c.pc = "save" =>
              /\ c.to = c.t0 + (c.ii + 1) * c.ndt * c.dt
              /\ Compose(IF s = "symplec6" THEN Joined(c.buf.qo.h, c.buf.po.h)
                                            ELSE c.buf.yo.h, 1, <<>>)
                 = Compose(StartHistory(c)
                           \o ElementarySteps(s, c.t0, c.dt, (c.ii + 1) * c.ndt), 1, <<>>)
         /\ (s = "symplec6" /\ c.pc \in {"inner", "tail"} /\ c.kx = 1) =>
              /\ c.to = after + Mul(S6_c1, c.dt)
              /\ Compose(Joined(c.buf.q12.h, c.buf.po.h), 1, <<>>)
                 = Compose(StartHistory(c) \o ElementarySteps(s, c.t0, c.dt, done)
                           \o << Op("drift", Mul(S6_c1, c.dt), 0) >>, 1, <<>>)

C12_Witness ==
  /\ call[Main].pc = "save"
  /\ call[Main].scheme = "symplec6"
  /\ call[Main].ndt = MaxNdt
  /\ call[Main].ii = MaxNt - 2
  /\ Len(call[Main].buf.qo.h) > 0

\* n times {kick(d) at the midpoint of the step, drift(d)}, the first step
\* starting at time tt
RECURSIVE KickDrifts(_, _, _)
KickDrifts(tt, d, n) ==
  IF n <= 0 THEN <<>>
  ELSE << Op("kick", d, tt + d \div 2), Op("drift", d, 0) >> \o KickDrifts(tt + d, d, n - 1)

\* k macro intervals of leapfrog with n steps d each, the first at time tt
RECURSIVE LeapfrogIntervals(_, _, _, _)
LeapfrogIntervals(tt, d, n, k) ==
  IF k <= 0 THEN <<>>
  ELSE << Op("drift", d \div 2, 0) >> \o KickDrifts(tt, d, n - 1)
       \o << Op("kick", d, tt + (n - 1) * d + d \div 2), Op("drift", d \div 2, 0) >>
       \o LeapfrogIntervals(tt + n * d, d, n, k - 1)

\* the sum of the durations of the drifts of a history
RECURSIVE DriftSum(_, _)
DriftSum(hh, i) ==
  IF i > Len(hh) THEN 0
  ELSE (IF hh[i].op = "drift" THEN hh[i].dt ELSE 0) + DriftSum(hh, i + 1)

\* C13: leapfrog with 0 < dt <= interval: ndt is the quotient interval/dt
\* truncated; a macro interval is drift(dt/2), ndt-1 times {kick(dt) at
\* to+dt/2, drift(dt)}, kick(dt) at to+dt/2, drift(dt/2): ndt kicks, drift time
\* ndt*dt; the clock after k intervals is t[0]+k*ndt*dt, which is t[k] when dt
\* divides the interval.
C13_LeapfrogStructure ==
  \A t \in Threads :
    LET c == call[t]
        k == c.ii + 1
        hh == c.buf.yo.h
        h0 == StartHistory(c)
    IN (c.scheme = "leapfrog" /\ 0 < c.dt /\ c.dt <= c.init_dt) =>
         /\ c.pc \in {"loop", "head", "inner", "tail", "save"} =>
              /\ c.ndt * c.dt <= c.init_dt
              /\ c.init_dt < (c.ndt + 1) * c.dt
         /\ c.pc = "loop" => c.to = c.t0 + c.ii * c.ndt * c.dt
         /\ c.pc = "save" =>
              /\ hh = h0 \o LeapfrogIntervals(c.t0, c.dt, c.ndt, k)
              /\ Cardinality({i \in 1..Len(hh) : hh[i].op = "kick"}) = k * c.ndt
              /\ DriftSum(hh, 1) = k * c.ndt * c.dt
              /\ c.to = c.t0 + k * c.ndt * c.dt
              /\ c.ndt * c.dt = c.init_dt => c.to = c.t0 + k * c.init_dt

C13_Witness ==
  /\ call[Main].scheme = "leapfrog"
  /\ call[Main].pc = "save"
  /\ call[Main].ndt = MaxNdt
  /\ call[Main].ii = MaxNt - 2
  /\ call[Main].ndt * call[Main].dt < call[Main].init_dt

\* the positions of the history hh that hold a multiplication of yo[2] by yo[0]
MulLzAt(hh) == {i \in 1..Len(hh) : hh[i].op = "mulLz"}

\* C14 as stated: in leapfrog and symplec4 with construct_Lz the third
\* component of every saved block is the state's third divided by its first,
\* the rest of the block is the state, the save leaves the state as it is and
\* no component of the state is ever rescaled; without construct_Lz every
\* saved block is the state itself.
C14_TransformOnSavedCopyOnly ==
  \A t \in Threads :
    LET c == call[t]
        o == out[t]
    IN (c.pc # "idle" /\ c.scheme \in {"leapfrog", "symplec4"}) =>
         /\ \A j \in 0..(o.pos - 1) :
              /\ o.result[j].Lz = c.construct_Lz
              /\ o.result[j].p = NoTerm
         /\ (c.pc = "loop" /\ c.ii >= 1 /\ c.ii < o.pos) =>
              o.result[c.ii].y = c.buf.yo
         /\ MulLzAt(c.buf.yo.h) = {}

\* C14 amended: with construct_Lz the call first multiplies the third
\* component of the state by the first, once, after block 0 has been saved as
\* the state itself; every later block is the state after its macro interval
\* with the third component of the copy divided by the first, and the save
\* leaves the state as it is; without construct_Lz the state is never
\* rescaled and every block is the state itself.
C14_LzOnStateThenSavedCopy ==
  \A t \in Threads :
    LET c == call[t]
        o == out[t]
        y0 == c.yo0.yo
        n0 == Len(y0.h)
        start == [c.yo0 EXCEPT !.yo = IF c.construct_Lz THEN MulLz(y0) ELSE y0]
    IN (c.pc # "idle" /\ c.scheme \in {"leapfrog", "symplec4"}) =>
         /\ o.result[0] = [y |-> y0, p |-> NoTerm, Lz |-> FALSE]
         /\ MulLzAt(c.buf.yo.h) = IF c.construct_Lz THEN {n0 + 1} ELSE {}
         /\ \A j \in 1..(o.pos - 1) :
              o.result[j] =
                [y |-> RunIntervals(c.scheme, [buf |-> start, to |-> c.t0],
                                    c.dt, c.ndt, j).buf.yo,
                 p |-> NoTerm, Lz |-> c.construct_Lz]
         /\ (c.pc = "loop" /\ c.ii >= 1 /\ c.ii < o.pos) =>
              o.result[c.ii].y = c.buf.yo

C14_Witness ==
  /\ Returned(Main)
  /\ call[Main].scheme = "symplec4"
  /\ call[Main].construct_Lz
  /\ out[Main].pos = MaxNt
  /\ out[Main].result[MaxNt - 1].Lz
  /\ ~out[Main].result[0].Lz

\* the sum of the durations of the drifts among the first n calls of hh
RECURSIVE DriftSumTo(_, _)
DriftSumTo(hh, n) ==
  IF n <= 0 THEN 0
  ELSE DriftSumTo(hh, n - 1) + (IF hh[n].op = "drift" THEN hh[n].dt ELSE 0)

\* every kick of the probe hh is passed tstart plus the drifts before it
KickTimesFollowDrifts(hh, tstart) ==
  \A i \in 1..Len(hh) :
    hh[i].op = "kick" => hh[i].t = tstart + DriftSumTo(hh, i - 1)

\* C15: for every candidate dt of a step-size search both probes start with
\* the clock at t[0], every kick or acceleration is passed t[0] plus the
\* drifts before it in its probe, the times of the two-half-step probe lie in
\* [t[0], t[0]+dt], and the clock is at t[0] again for the next candidate.
C15_ProbeTimes ==
  \A t \in Threads :
    LET e == est[t]
    IN Len(e.tried) >= 1 =>
         /\ e.s1 = e.t0
         /\ e.s2 = e.t0
         /\ KickTimesFollowDrifts(e.h1, e.t0)
         /\ KickTimesFollowDrifts(e.h2, e.t0)
         /\ \A i \in 1..Len(e.h2) :
              e.h2[i].op = "kick" => (e.t0 <= e.h2[i].t /\ e.h2[i].t <= e.t0 + e.dt)
         /\ e.scheme # "symplec4" => e.to = e.t0

====
